---- MODULE Spec2Model ----
(***************************************************************************)
(* Model of src/minesweeper/minesweeper.py: the Minesweeper board, the     *)
(* Sentence class and the MinesweeperAI knowledge engine with its          *)
(* add_knowledge fixpoint, make_safe_move and make_random_move.            *)
(*                                                                         *)
(* add_knowledge is modelled as a sequence of steps driven by pc, one step *)
(* per engine-level mark_safe / mark_mine call and per appended inference, *)
(* so that the states between those calls are states of the model.  A      *)
(* Sentence.mark_* call on one sentence is atomic; the states in which     *)
(* only some sentences of the list have been updated by an engine-level    *)
(* mark_* hold, sentence by sentence, a value of the state before or of    *)
(* the state after that step.                                              *)
(***************************************************************************)
EXTENDS Integers, Sequences, FiniteSets, TLC

\* the engine instance modelled: MinesweeperAI(height=3, width=3) on a
\* Minesweeper(height=3, width=3, mines=m) board
Height == 3
Width == 3

\* bound of the model: the board holds at most MaxMines mines
MaxMines == 2

VARIABLES
    board,          \* Minesweeper.mines: the true mine set
    moves_made,     \* MinesweeperAI.moves_made
    mines,          \* MinesweeperAI.mines
    safes,          \* MinesweeperAI.safes
    knowledge,      \* MinesweeperAI.knowledge: list of sentences
    pc,             \* position of the running call
    cell,           \* add_knowledge: argument cell
    count,          \* add_knowledge: argument count
    new_safes,      \* update_safes_and_mines: part of new_safes not yet iterated
    new_mines,      \* update_safes_and_mines: part of new_mines not yet iterated
    update,         \* update_safes_and_mines: local update
    generated,      \* generate_inferences: local generated
    okay1,          \* add_knowledge: local okay1
    new_inferences, \* generate_inferences: part of new_inferences not yet appended
    random_cell,    \* make_random_move: local cell (None outside the call)
    op,             \* name of the operation called last
    ret,            \* value returned by the last completed call (None while one runs)
    safes0,         \* history: self.safes on entry to the running/last add_knowledge
    knowledge0      \* history: self.knowledge when its fixpoint loop was entered

vars == <<board, moves_made, mines, safes, knowledge, pc, cell, count,
          new_safes, new_mines, update, generated, okay1, new_inferences,
          random_cell, op, ret, safes0, knowledge0>>

\* Python's None, as a value comparable with a cell
None == <<>>

Cells == (0 .. Height - 1) \X (0 .. Width - 1)

\* ---- class Minesweeper (the board) ----

\* Minesweeper.nearby_mines(cell)
nearby_mines(c) ==
    Cardinality({n \in board :
        /\ n[1] \in c[1] - 1 .. c[1] + 1
        /\ n[2] \in c[2] - 1 .. c[2] + 1
        /\ n # c
        /\ 0 <= n[1] /\ n[1] < Height /\ 0 <= n[2] /\ n[2] < Width})

\* ---- class Sentence ----

Sentence(cs, n) == [cells |-> cs, count |-> n]

\* faulty variant: ">=" for "=="
known_mines_ge(s) == IF Cardinality(s.cells) >= s.count THEN s.cells ELSE {}

known_mines(s) == IF Cardinality(s.cells) = s.count THEN s.cells ELSE {}

\* faulty variant: the test of known_mines in known_safes
known_safes_swapped(s) == IF Cardinality(s.cells) = s.count THEN s.cells ELSE {}

known_safes(s) == IF s.count = 0 THEN s.cells ELSE {}

\* faulty variant: the count is not decremented
Sentence_mark_mine_nodec(s, c) ==
    IF c \in s.cells THEN Sentence(s.cells \ {c}, s.count) ELSE s

Sentence_mark_mine(s, c) ==
    IF c \in s.cells THEN Sentence(s.cells \ {c}, s.count - 1) ELSE s

\* faulty variant: marking a cell safe lowers the count as well
Sentence_mark_safe_dec(s, c) ==
    IF c \in s.cells THEN Sentence(s.cells \ {c}, s.count - 1) ELSE s

Sentence_mark_safe(s, c) ==
    IF c \in s.cells THEN Sentence(s.cells \ {c}, s.count) ELSE s

\* faulty variant: the counts subtracted the other way round
get_inference_swapped(s, other) ==
    IF other.cells \subseteq s.cells
    THEN <<Sentence(s.cells \ other.cells, other.count - s.count)>>
    ELSE <<>>

\* faulty variant: the count of the other sentence is not subtracted
get_inference_nosub(s, other) ==
    IF other.cells \subseteq s.cells
    THEN <<Sentence(s.cells \ other.cells, s.count)>>
    ELSE <<>>

\* faulty variant: the subset test the other way round
get_inference_superset(s, other) ==
    IF s.cells \subseteq other.cells
    THEN <<Sentence(s.cells \ other.cells, s.count - other.count)>>
    ELSE <<>>

\* faulty variant: the difference is returned without the subset test
get_inference_untested(s, other) ==
    <<Sentence(s.cells \ other.cells, s.count - other.count)>>

\* get_inference: <<>> for None, <<sentence>> for a sentence
get_inference(s, other) ==
    IF other.cells \subseteq s.cells
    THEN <<Sentence(s.cells \ other.cells, s.count - other.count)>>
    ELSE <<>>

\* Python's "sentence in list" (by Sentence.__eq__)
InList(s, list) == \E i \in DOMAIN list : list[i] = s

\* ---- class MinesweeperAI ----

\* the sentences of the list after MinesweeperAI.mark_mine(c)
mark_mine_all(kn, c) == [i \in DOMAIN kn |-> Sentence_mark_mine(kn[i], c)]

\* the sentences of the list after MinesweeperAI.mark_safe(c)
mark_safe_all(kn, c) == [i \in DOMAIN kn |-> Sentence_mark_safe(kn[i], c)]

\* faulty variant: the column is not clipped at the right edge of the grid
get_nearby_cells_unclipped(c) ==
    {n \in (c[1] - 1 .. c[1] + 1) \X (c[2] - 1 .. c[2] + 1) :
        ~(n = c \/ n[1] < 0 \/ n[2] < 0 \/ n[1] = Height)}

get_nearby_cells(c) ==
    {n \in (c[1] - 1 .. c[1] + 1) \X (c[2] - 1 .. c[2] + 1) :
        ~(n = c \/ n[1] < 0 \/ n[2] < 0 \/ n[1] = Height \/ n[2] = Width)}

\* the loop "for neigh in neighbors: if neigh in self.mines: mark_mine(neigh)"
RECURSIVE MarkKnownMines(_, _)
MarkKnownMines(s, todo) ==
    IF todo = {} THEN s
    ELSE LET n == CHOOSE x \in todo : TRUE
         IN MarkKnownMines(IF n \in mines THEN Sentence_mark_mine(s, n) ELSE s,
                           todo \ {n})

\* faulty variant: the known safes are not removed from the new sentence
NewSentence_keep_safes(c, n) ==
    LET neighbors == get_nearby_cells(c)
        marked == MarkKnownMines(Sentence(neighbors, n), neighbors)
    IN Sentence(marked.cells \ moves_made, marked.count)

\* the sentence add_knowledge(c, n) appends
NewSentence(c, n) ==
    LET neighbors == get_nearby_cells(c)
        marked == MarkKnownMines(Sentence(neighbors, n), neighbors)
    IN Sentence((marked.cells \ safes) \ moves_made, marked.count)

\* union of known_safes() / known_mines() over the list
AllKnownSafes(kn) == UNION {known_safes(kn[i]) : i \in DOMAIN kn}

AllKnownMines(kn) == UNION {known_mines(kn[i]) : i \in DOMAIN kn}

\* [x for x in self.knowledge if len(x.cells) > 0]
Prune(kn) == SelectSeq(kn, LAMBDA x : Cardinality(x.cells) > 0)

\* the inner loop of generate_inferences, "for sentence2 in self.knowledge",
\* for sentence1 = kn[i] and sentence2 = kn[j], kn[j + 1], ...
RECURSIVE ScanRow(_, _, _, _)
ScanRow(kn, i, j, acc) ==
    IF j > Len(kn) THEN acc
    ELSE LET inference == get_inference(kn[i], kn[j])
         IN IF kn[i] = kn[j] THEN ScanRow(kn, i, j + 1, acc)
            ELSE IF inference = <<>> THEN ScanRow(kn, i, j + 1, acc)
            ELSE IF InList(inference[1], acc) \/ InList(inference[1], kn)
                 THEN ScanRow(kn, i, j + 1, acc)
            ELSE ScanRow(kn, i, j + 1, Append(acc, inference[1]))

\* the double loop of generate_inferences over sentence1 = kn[i], sentence2 = kn[j].
\* Both branches go on with the inferences collected so far; the test makes
\* TLC evaluate a row before it starts the next one, which keeps the depth of
\* the evaluation at one row instead of all the pairs.
RECURSIVE ScanPairs(_, _, _, _)
ScanPairs(kn, i, j, acc) ==
    IF i > Len(kn) THEN acc
    ELSE LET row == ScanRow(kn, i, j, acc)
         IN IF row = <<>>
            THEN ScanPairs(kn, i + 1, 1, <<>>)
            ELSE ScanPairs(kn, i + 1, 1, row)

\* faulty variant: a sentence is dropped only when it equals the one kept last
RECURSIVE Dedupe_adjacent(_, _)
Dedupe_adjacent(kn, acc) ==
    IF kn = <<>> THEN acc
    ELSE Dedupe_adjacent(Tail(kn),
                         IF acc # <<>> /\ acc[Len(acc)] = Head(kn)
                         THEN acc ELSE Append(acc, Head(kn)))

\* the final loop of add_knowledge: keep the first copy of each sentence
RECURSIVE Dedupe(_, _)
Dedupe(kn, acc) ==
    IF kn = <<>> THEN acc
    ELSE Dedupe(Tail(kn), IF InList(Head(kn), acc) THEN acc ELSE Append(acc, Head(kn)))

\* ---- initial state: Minesweeper.__init__ and MinesweeperAI.__init__ ----

Init ==
    /\ board \in {b \in SUBSET Cells : Cardinality(b) <= MaxMines}
    /\ moves_made = {}
    /\ mines = {}
    /\ safes = {}
    /\ knowledge = <<>>
    /\ pc = "idle"
    /\ cell = None
    /\ count = 0
    /\ new_safes = {}
    /\ new_mines = {}
    /\ update = FALSE
    /\ generated = FALSE
    /\ okay1 = FALSE
    /\ new_inferences = <<>>
    /\ random_cell = None
    /\ op = "none"
    /\ ret = None
    /\ safes0 = {}
    /\ knowledge0 = <<>>

\* ---- add_knowledge ----

\* lines 219-228: build the new sentence and append it
Call(c, n) ==
    /\ pc = "idle"
    /\ cell' = c
    /\ count' = n
    /\ knowledge' = Append(knowledge, NewSentence(c, n))
    /\ pc' = "called"
    /\ op' = "add_knowledge"
    /\ ret' = None
    /\ safes0' = safes
    /\ knowledge0' = <<>>
    /\ UNCHANGED <<board, moves_made, mines, safes, new_safes, new_mines,
                   update, generated, okay1, new_inferences, random_cell>>

\* the driver's truthful report of a cell that was not reported before
AddKnowledge ==
    \E c \in Cells :
        /\ c \notin board
        /\ c \notin moves_made
        /\ Call(c, nearby_mines(c))

\* faulty variant: the reported cell is not marked safe
MarkProbed_nosafe ==
    /\ pc = "called"
    /\ moves_made' = moves_made \cup {cell}
    /\ knowledge0' = knowledge
    /\ update' = FALSE
    /\ pc' = "scan"
    /\ UNCHANGED <<board, mines, safes, knowledge, cell, count, new_safes, new_mines,
                   generated, okay1, new_inferences, random_cell, op, ret, safes0>>

\* lines 230-233 and the entry of the fixpoint loop (292-293, 240)
MarkProbed ==
    /\ pc = "called"
    /\ moves_made' = moves_made \cup {cell}
    /\ safes' = safes \cup {cell}
    /\ knowledge' = mark_safe_all(knowledge, cell)
    /\ knowledge0' = knowledge'
    /\ update' = FALSE
    /\ pc' = "scan"
    /\ UNCHANGED <<board, mines, cell, count, new_safes, new_mines, generated,
                   okay1, new_inferences, random_cell, op, ret, safes0>>

\* update_safes_and_mines, lines 242-248, and 255-257 when nothing was found
UpdateScan ==
    /\ pc = "scan"
    /\ LET ns == AllKnownSafes(knowledge)
           nm == AllKnownMines(knowledge)
       IN IF ns = {} /\ nm = {}
          THEN /\ knowledge' = Prune(knowledge)
               /\ okay1' = update
               /\ generated' = FALSE
               /\ pc' = "infer"
               /\ UNCHANGED <<new_safes, new_mines>>
          ELSE /\ new_safes' = ns
               /\ new_mines' = nm
               /\ pc' = "mark"
               /\ UNCHANGED <<knowledge, okay1, generated>>
    /\ UNCHANGED <<board, moves_made, mines, safes, cell, count, update,
                   new_inferences, random_cell, op, ret, safes0, knowledge0>>

\* line 250-251: one iteration of "for safe in new_safes"
MarkSafeStep ==
    /\ pc = "mark"
    /\ \E safe \in new_safes :
        /\ safes' = safes \cup {safe}
        /\ knowledge' = mark_safe_all(knowledge, safe)
        /\ new_safes' = new_safes \ {safe}
    /\ UNCHANGED <<board, moves_made, mines, pc, cell, count, new_mines, update,
                   generated, okay1, new_inferences, random_cell, op, ret, safes0, knowledge0>>

\* line 252-253: one iteration of "for mine in new_mines"
MarkMineStep ==
    /\ pc = "mark"
    /\ new_safes = {}
    /\ \E mine \in new_mines :
        /\ mines' = mines \cup {mine}
        /\ knowledge' = mark_mine_all(knowledge, mine)
        /\ new_mines' = new_mines \ {mine}
    /\ UNCHANGED <<board, moves_made, safes, pc, cell, count, new_safes, update,
                   generated, okay1, new_inferences, random_cell, op, ret, safes0, knowledge0>>

\* faulty variant: update_safes_and_mines returns after its first pass
UpdatePrune_once ==
    /\ pc = "mark"
    /\ new_safes = {}
    /\ new_mines = {}
    /\ knowledge' = Prune(knowledge)
    /\ update' = TRUE
    /\ okay1' = TRUE
    /\ generated' = FALSE
    /\ pc' = "infer"
    /\ UNCHANGED <<board, moves_made, mines, safes, cell, count, new_safes,
                   new_mines, new_inferences, random_cell, op, ret, safes0,
                   knowledge0>>

\* lines 255-258 after a pass that found something
UpdatePrune ==
    /\ pc = "mark"
    /\ new_safes = {}
    /\ new_mines = {}
    /\ knowledge' = Prune(knowledge)
    /\ update' = TRUE
    /\ pc' = "scan"
    /\ UNCHANGED <<board, moves_made, mines, safes, cell, count, new_safes,
                   new_mines, generated, okay1, new_inferences, random_cell, op, ret, safes0,
                   knowledge0>>

\* faulty variant: "okay1 & okay2" for "okay1 | okay2"
InferScan_and ==
    /\ pc = "infer"
    /\ LET found == ScanPairs(knowledge, 1, 1, <<>>)
       IN IF found = <<>>
          THEN /\ pc' = IF okay1 /\ generated THEN "scan" ELSE "dedupe"
               /\ update' = FALSE
               /\ UNCHANGED new_inferences
          ELSE /\ new_inferences' = found
               /\ pc' = "append"
               /\ UNCHANGED update
    /\ UNCHANGED <<board, moves_made, mines, safes, knowledge, cell, count,
                   new_safes, new_mines, generated, okay1, random_cell, op, ret, safes0, knowledge0>>

\* generate_inferences, lines 269-281, and 286-287 with 298, 293 when nothing is new
InferScan ==
    /\ pc = "infer"
    /\ LET found == ScanPairs(knowledge, 1, 1, <<>>)
       IN IF found = <<>>
          THEN /\ pc' = IF okay1 \/ generated THEN "scan" ELSE "dedupe"
               /\ update' = FALSE
               /\ UNCHANGED new_inferences
          ELSE /\ new_inferences' = found
               /\ pc' = "append"
               /\ UNCHANGED update
    /\ UNCHANGED <<board, moves_made, mines, safes, knowledge, cell, count,
                   new_safes, new_mines, generated, okay1, random_cell, op, ret, safes0, knowledge0>>

\* lines 283-284: one iteration of "for inference in new_inferences", and 288-289
InferAppend ==
    /\ pc = "append"
    /\ new_inferences # <<>>
    /\ knowledge' = Append(knowledge, Head(new_inferences))
    /\ new_inferences' = Tail(new_inferences)
    /\ IF Tail(new_inferences) = <<>>
       THEN generated' = TRUE /\ pc' = "infer"
       ELSE UNCHANGED <<generated, pc>>
    /\ UNCHANGED <<board, moves_made, mines, safes, cell, count, new_safes,
                   new_mines, update, okay1, random_cell, op, ret, safes0, knowledge0>>

\* lines 300-305: remove duplicates and return
DedupeStep ==
    /\ pc = "dedupe"
    /\ knowledge' = Dedupe(knowledge, <<>>)
    /\ pc' = "idle"
    /\ ret' = None
    /\ UNCHANGED <<board, moves_made, mines, safes, cell, count, op, new_safes,
                   new_mines, update, generated, okay1, new_inferences, random_cell, safes0,
                   knowledge0>>

\* faulty variant: the moves made are not removed from the candidates
MakeSafeMove_all ==
    /\ pc = "idle"
    /\ LET safe_moves == safes
       IN IF Cardinality(safe_moves) = 0
          THEN ret' = None
          ELSE \E c \in safe_moves : ret' = c
    /\ op' = "make_safe_move"
    /\ UNCHANGED <<board, moves_made, mines, safes, knowledge, pc, cell, count,
                   new_safes, new_mines, update, generated, okay1,
                   new_inferences, random_cell, safes0, knowledge0>>

\* ---- make_safe_move ----

\* faulty variant: the returned cell is taken out of safes (set.pop on the
\* set itself)
MakeSafeMove_pop ==
    /\ pc = "idle"
    /\ LET safe_moves == safes \ moves_made
       IN IF Cardinality(safe_moves) = 0
          THEN ret' = None /\ UNCHANGED safes
          ELSE \E c \in safe_moves : ret' = c /\ safes' = safes \ {c}
    /\ op' = "make_safe_move"
    /\ UNCHANGED <<board, moves_made, mines, knowledge, pc, cell, count,
                   new_safes, new_mines, update, generated, okay1,
                   new_inferences, random_cell, safes0, knowledge0>>

MakeSafeMove ==
    /\ pc = "idle"
    /\ LET safe_moves == safes \ moves_made
       IN IF Cardinality(safe_moves) = 0
          THEN ret' = None
          ELSE \E c \in safe_moves : ret' = c
    /\ op' = "make_safe_move"
    /\ UNCHANGED <<board, moves_made, mines, safes, knowledge, pc, cell, count,
                   new_safes, new_mines, update, generated, okay1,
                   new_inferences, random_cell, safes0, knowledge0>>

\* ---- make_random_move ----

\* get_random_cell: any (randint(0, height-1), randint(0, width-1))
RandomCells == (0 .. Height - 1) \X (0 .. Width - 1)

\* faulty variant: the loop does not reject the known mines
Rejected_moves_only(c) == c \in moves_made

\* line 338: the condition of the rejection loop
Rejected(c) == c \in moves_made \/ c \in mines

\* faulty variant: the test for a fully resolved board is left out
MakeRandomMove_untested ==
    /\ pc = "idle"
    /\ \E c \in RandomCells : random_cell' = c
    /\ pc' = "random"
    /\ op' = "make_random_move"
    /\ ret' = None
    /\ UNCHANGED <<board, moves_made, mines, safes, knowledge, cell, count,
                   new_safes, new_mines, update, generated, okay1,
                   new_inferences, safes0, knowledge0>>

\* lines 331-337
MakeRandomMove ==
    /\ pc = "idle"
    /\ IF Cardinality(moves_made) + Cardinality(mines) = Height * Width
       THEN UNCHANGED <<pc, random_cell>>
       ELSE /\ \E c \in RandomCells : random_cell' = c
            /\ pc' = "random"
    /\ op' = "make_random_move"
    /\ ret' = None
    /\ UNCHANGED <<board, moves_made, mines, safes, knowledge, cell, count,
                   new_safes, new_mines, update, generated, okay1,
                   new_inferences, safes0, knowledge0>>

\* lines 338-339: one iteration of the rejection loop
RandomRetry ==
    /\ pc = "random"
    /\ Rejected(random_cell)
    /\ \E c \in RandomCells : random_cell' = c
    /\ UNCHANGED <<board, moves_made, mines, safes, knowledge, pc, cell, count,
                   new_safes, new_mines, update, generated, okay1,
                   new_inferences, op, ret, safes0, knowledge0>>

\* line 340
RandomReturn ==
    /\ pc = "random"
    /\ ~Rejected(random_cell)
    /\ ret' = random_cell
    /\ random_cell' = None
    /\ pc' = "idle"
    /\ UNCHANGED <<board, moves_made, mines, safes, knowledge, cell, count, op,
                   new_safes, new_mines, update, generated, okay1,
                   new_inferences, safes0, knowledge0>>

\* ---- specification of truthful runs ----

Step ==
    \/ MarkProbed
    \/ UpdateScan
    \/ MarkSafeStep
    \/ MarkMineStep
    \/ UpdatePrune
    \/ InferScan
    \/ InferAppend
    \/ DedupeStep

Moves ==
    \/ MakeSafeMove
    \/ MakeRandomMove
    \/ RandomRetry
    \/ RandomReturn

Next == AddKnowledge \/ Step \/ Moves

Spec == Init /\ [][Next]_vars

\* ---- runs in which the driver also repeats a report ----

\* add_knowledge called again, with the true count, for a cell already reported
AddKnowledgeRepeated ==
    \E c \in moves_made : Call(c, nearby_mines(c))

NextRepeat == AddKnowledge \/ AddKnowledgeRepeated \/ Step

SpecRepeat == Init /\ [][NextRepeat]_vars

\* ---- runs with arbitrary reports ----

\* bounds of these runs: reports are made while fewer than MaxAnyCalls cells
\* were reported, and the fixpoint is followed while knowledge holds at most
\* MaxSentences sentences
MaxAnyCalls == 2
MaxSentences == 5

\* the board plays no part in these runs
InitAny == Init /\ board = {}

\* add_knowledge called for any cell, reported or not, with any count a cell
\* with that many neighbours can show
AddKnowledgeAny ==
    \E c \in Cells :
        \E n \in 0 .. Cardinality(get_nearby_cells(c)) :
            /\ Cardinality(moves_made) < MaxAnyCalls
            /\ Len(knowledge) <= MaxSentences
            /\ Call(c, n)

StepAny == Len(knowledge) <= MaxSentences /\ Step

NextAny == AddKnowledgeAny \/ StepAny

SpecAny == InitAny /\ [][NextAny]_vars

\* ---- properties ----

\* 0 <= count <= |cells|
Valid(s) == 0 <= s.count /\ s.count <= Cardinality(s.cells)

\* C1: in a truthful run, after every add_knowledge call no cell of safes is a
\* mine of the board and every cell of mines is a mine of the board.
C1_Soundness ==
    pc = "idle" => (safes \cap board = {} /\ mines \subseteq board)

\* C1 witness: a call has returned having deduced a mine and an unprobed safe cell
C1_Witness ==
    /\ pc = "idle"
    /\ op = "add_knowledge"
    /\ mines # {}
    /\ safes \ moves_made # {}

\* C2: make_safe_move returns an element of safes - moves_made when there is
\* one and None exactly when there is none, and every element of that set is a
\* possible result.
C2_SafeMove ==
    [][(pc = "idle" /\ op' = "make_safe_move") =>
        /\ (safes \ moves_made # {} => ret' \in safes \ moves_made)
        /\ (ret' = None <=> safes \ moves_made = {})
        /\ \A c \in safes \ moves_made : ENABLED (MakeSafeMove /\ ret' = c)]_vars

\* C2 witness: make_safe_move returned one of several candidates
C2_Witness ==
    /\ pc = "idle"
    /\ op = "make_safe_move"
    /\ ret \in safes \ moves_made
    /\ Cardinality(safes \ moves_made) >= 2

\* C3: in a truthful run every sentence of knowledge has 0 <= count <= |cells|
\* in every state, those between the steps of the fixpoint included.
C3_CountInRange ==
    \A i \in DOMAIN knowledge : Valid(knowledge[i])

\* C3 witness: in the middle of the marking loop, with a mine still to mark and
\* a sentence that still holds it
C3_Witness ==
    /\ pc = "mark"
    /\ new_safes = {}
    /\ \E m \in new_mines : \E i \in DOMAIN knowledge :
        m \in knowledge[i].cells /\ Cardinality(knowledge[i].cells) >= 2

\* C4: in a truthful run safes and mines are disjoint after every add_knowledge.
C4_Disjoint ==
    pc = "idle" => safes \cap mines = {}

\* C4 witness: a call has returned with both sets holding deduced cells
C4_Witness ==
    /\ pc = "idle"
    /\ op = "add_knowledge"
    /\ Cardinality(mines) >= 2
    /\ Cardinality(safes \ moves_made) >= 2

\* C5: after every add_knowledge call no sentence of knowledge holds a cell of
\* safes, mines or moves_made.
C5_NoKnownCell ==
    pc = "idle" =>
        \A i \in DOMAIN knowledge :
            knowledge[i].cells \cap (safes \cup mines \cup moves_made) = {}

\* C5 witness: a call has returned leaving sentences next to deduced safes
\* and mines
C5_Witness ==
    /\ pc = "idle"
    /\ op = "add_knowledge"
    /\ Len(knowledge) >= 2
    /\ mines # {}
    /\ safes \ moves_made # {}

\* C6: the state add_knowledge leaves is a fixpoint: no sentence has count 0 or
\* count |cells|, every subset inference of two distinct sentences is in
\* knowledge, and the two passes run again change nothing.
C6_Fixpoint ==
    pc = "idle" =>
        /\ \A i \in DOMAIN knowledge :
            knowledge[i].count # 0 /\ knowledge[i].count # Cardinality(knowledge[i].cells)
        /\ \A i, j \in DOMAIN knowledge :
            (knowledge[i] # knowledge[j] /\ knowledge[j].cells \subseteq knowledge[i].cells)
                => InList(Sentence(knowledge[i].cells \ knowledge[j].cells,
                                   knowledge[i].count - knowledge[j].count), knowledge)
        /\ AllKnownSafes(knowledge) = {}
        /\ AllKnownMines(knowledge) = {}
        /\ Prune(knowledge) = knowledge
        /\ ScanPairs(knowledge, 1, 1, <<>>) = <<>>

\* C6 witness: a call has returned leaving a sentence, a sentence over a proper
\* subset of its cells and their difference
C6_Witness ==
    /\ pc = "idle"
    /\ op = "add_knowledge"
    /\ \E i, j \in DOMAIN knowledge :
        /\ knowledge[j].cells \subseteq knowledge[i].cells
        /\ knowledge[j].cells # knowledge[i].cells

\* C7: make_random_move returns None when |moves_made| + |mines| = height *
\* width, and otherwise an in-bounds cell outside moves_made and mines.
C7_RandomMove ==
    (pc = "idle" /\ op = "make_random_move") =>
        IF Cardinality(moves_made) + Cardinality(mines) = Height * Width
        THEN ret = None
        ELSE ret \in Cells \ (moves_made \cup mines)

\* C7 witness: make_random_move returned the only cell left
C7_Witness ==
    /\ pc = "idle"
    /\ op = "make_random_move"
    /\ Cells \ (moves_made \cup mines) = {ret}

\* C8: after add_knowledge(cell, 0) every neighbour of cell is in safes and in
\* no sentence; after add_knowledge(cell, count) with count the number of
\* neighbours not known safe at the call, all those neighbours are in mines.
C8_DirectDeduction ==
    (pc = "idle" /\ cell # None) =>
        LET neighbors == get_nearby_cells(cell)
        IN /\ count = 0 =>
                /\ neighbors \subseteq safes
                /\ \A i \in DOMAIN knowledge : knowledge[i].cells \cap neighbors = {}
           /\ count = Cardinality(neighbors \ safes0) =>
                neighbors \ safes0 \subseteq mines

\* C8 witness: add_knowledge((1,1), 0) on a fresh engine has returned
C8_Witness ==
    /\ pc = "idle"
    /\ op = "add_knowledge"
    /\ cell = <<1, 1>>
    /\ count = 0
    /\ moves_made = {cell}
    /\ Cardinality(safes) = 9

\* C9: for sentences A, B of knowledge at the start of the fixpoint with
\* B.cells a proper subset of A.cells, at the end of the fixpoint the cells of
\* A.cells - B.cells are in safes if A.count = B.count, and in mines if
\* A.count - B.count = |A.cells - B.cells|.
C9_InferenceFeedsDeduction ==
    pc \in {"dedupe", "idle"} =>
        \A i, j \in DOMAIN knowledge0 :
            LET A == knowledge0[i]
                B == knowledge0[j]
            IN (B.cells \subseteq A.cells /\ B.cells # A.cells) =>
                /\ A.count = B.count => A.cells \ B.cells \subseteq safes
                /\ A.count - B.count = Cardinality(A.cells \ B.cells)
                        => A.cells \ B.cells \subseteq mines

\* C9 witness: the fixpoint started from A and B with equal positive counts,
\* neither decided on its own, and has ended
C9_Witness ==
    /\ pc = "idle"
    /\ \E i, j \in DOMAIN knowledge0 :
        LET A == knowledge0[i]
            B == knowledge0[j]
        IN /\ B.cells \subseteq A.cells /\ B.cells # A.cells
           /\ A.count = B.count /\ B.count > 0
           /\ B.count < Cardinality(B.cells)
           /\ \A k \in DOMAIN knowledge0 :
                knowledge0[k].count # 0
                /\ knowledge0[k].count # Cardinality(knowledge0[k].cells)

\* C10: add_knowledge for a cell already in moves_made ends in an error
\* raised to the caller and is not processed as a fresh report.
C10_RepeatedReportRaises ==
    [][(pc = "idle" /\ op' = "add_knowledge" /\ cell' \in moves_made) =>
        (pc' = "raised" /\ knowledge' = knowledge)]_vars

\* C11: a sentence whose count is negative or exceeds its number of cells is
\* never kept: the engine stops with an assertion failure instead.
C11_InvalidSentenceAborts ==
    (\E i \in DOMAIN knowledge : ~Valid(knowledge[i])) => pc = "raised"

\* C13: after every add_knowledge call, whatever the calls were, every cell of
\* moves_made is in safes.
C13_MovesAreSafes ==
    pc = "idle" => moves_made \subseteq safes

\* C13 witness: two reports that contradict each other have been processed
C13_Witness ==
    /\ pc = "idle"
    /\ Cardinality(moves_made) = 2
    /\ safes \cap mines # {}

\* the positions of a running add_knowledge
CallPcs == {"called", "scan", "mark", "infer", "append", "dedupe"}

\* a rank of the states of a running add_knowledge: the number of cells not
\* yet known, then the number of distinct non-empty sentences (more is
\* lower), then the position in the loops
RankUnknown == Cardinality(Cells \ (safes \cup mines))

RankSentences ==
    Cardinality({knowledge[i] : i \in DOMAIN knowledge} \
                {x \in {knowledge[i] : i \in DOMAIN knowledge} : x.cells = {}})

RankPc ==
    CASE pc = "called" -> 11
      [] pc = "mark" /\ new_safes = {} /\ new_mines = {} -> 10
      [] pc = "scan" /\ update -> 9
      [] pc = "infer" /\ (okay1 \/ generated) -> 8
      [] pc = "scan" /\ ~update -> 7
      [] pc = "mark" /\ ~(new_safes = {} /\ new_mines = {}) -> 6
      [] pc = "infer" /\ ~(okay1 \/ generated) -> 5
      [] pc = "append" -> 4
      [] pc = "dedupe" -> 3
      [] OTHER -> 0

\* a step that lowers the rank (RankUnknown, -RankSentences, RankPc) in the
\* lexicographic order
RankLower ==
    \/ RankUnknown' < RankUnknown
    \/ (RankUnknown' = RankUnknown /\ RankSentences' > RankSentences)
    \/ (RankUnknown' = RankUnknown /\ RankSentences' = RankSentences /\ RankPc' < RankPc)

\* C12: in a truthful run every add_knowledge call terminates: every step of
\* the call lowers the rank, so that no loop of update_safes_and_mines, of
\* generate_inferences or of the outer "while tocontinue" can go round for
\* ever, and the steps whose guard reads more than the position (the marking
\* loops and the appending loop) have a next step wherever a call gets to
\* them.
C12_Terminates ==
    /\ [](pc = "mark" => ENABLED (MarkSafeStep \/ MarkMineStep \/ UpdatePrune))
    /\ [](pc = "append" => ENABLED InferAppend)
    /\ [][(pc \in CallPcs) => RankLower]_vars

\* C12 witness: the outer loop runs its passes again after an inference
C12_Witness ==
    /\ pc = "mark"
    /\ generated
    /\ update

\* C14: the step that ends an add_knowledge call of a truthful run starts from
\* a knowledge list without a sentence of no cells and leaves a list without
\* a sentence of no cells and without two equal sentences, in which every
\* sentence the list held when the fixpoint settled still occurs.
C14_DedupedKnowledge ==
    [][(pc = "dedupe") =>
          /\ \A i \in DOMAIN knowledge : knowledge[i].cells # {}
          /\ \A i \in DOMAIN knowledge' : knowledge'[i].cells # {}
          /\ \A i, j \in DOMAIN knowledge' : knowledge'[i] = knowledge'[j] => i = j
          /\ \A i \in DOMAIN knowledge :
                \E j \in DOMAIN knowledge' : knowledge'[j] = knowledge[i]]_vars

\* the fixpoint has settled with two equal sentences that are not neighbours
\* in the list
C14_Witness ==
    /\ pc = "dedupe"
    /\ \E i, j \in DOMAIN knowledge :
        /\ i + 1 < j
        /\ knowledge[i] = knowledge[j]
        /\ knowledge[i + 1] # knowledge[i]

\* no sentence of the list can be decided on its own or has run out of cells
Deduced ==
    \A i \in DOMAIN knowledge :
        /\ knowledge[i].cells # {}
        /\ knowledge[i].count # 0
        /\ knowledge[i].count # Cardinality(knowledge[i].cells)

\* C15 as stated: at the start of every scan over the pairs of sentences no
\* sentence has count 0, count = |cells| or no cells.
C15_EveryScanDeduced == pc = "infer" => Deduced

\* C15 as amended: at the start of the first scan of every generate_inferences
\* call, that is right after update_safes_and_mines has returned, no sentence
\* has count 0, count = |cells| or no cells.
C15_FirstScanDeduced == (pc = "infer" /\ ~generated) => Deduced

\* a first scan that follows a pass of direct deductions, on at least two
\* sentences
C15_Witness ==
    /\ pc = "infer"
    /\ ~generated
    /\ okay1
    /\ Len(knowledge) >= 2

\* the cells of the grid next to the reported cell, the cell itself left out
Adjacent ==
    {n \in Cells : /\ n # cell
                   /\ n[1] - cell[1] \in -1 .. 1
                   /\ n[2] - cell[2] \in -1 .. 1}

\* C16: the sentence add_knowledge(cell, count) has appended before it marks
\* anything is over the adjacent cells that are in none of safes, moves_made
\* and mines as they were at the call, with count lowered by the number of
\* adjacent cells in mines.
C16_NewSentence ==
    pc = "called" =>
        /\ Len(knowledge) >= 1
        /\ knowledge[Len(knowledge)] =
              [cells |-> ((Adjacent \ safes) \ moves_made) \ mines,
               count |-> count - Cardinality(Adjacent \cap mines)]

\* the report of a cell at the edge of the grid that has a known mine, a
\* probed cell and a deduced safe among its neighbours
C16_Witness ==
    /\ pc = "called"
    /\ Cardinality(Adjacent) < 8
    /\ Adjacent \cap mines # {}
    /\ Adjacent \cap moves_made # {}
    /\ Adjacent \cap (safes \ moves_made) # {}

\* what C17 says get_inference(A, B) returns, written from the claim
Difference(A, B) ==
    [cells |-> A.cells \ B.cells, count |-> A.count - B.count]

\* C17: in every scan of generate_inferences of a truthful run, for all
\* sentences A, B of knowledge get_inference(A, B) is None exactly when B.cells
\* is not a subset of A.cells and is otherwise the sentence with cells
\* A.cells - B.cells and count A.count - B.count; the scan leaves the
\* sentences of knowledge as they were; and every sentence the scan derives is
\* such a difference of two sentences of knowledge and has count >= 0.
C17_GetInference ==
    [][(pc = "infer") =>
          /\ knowledge' = knowledge
          /\ \A i, j \in DOMAIN knowledge :
                LET A == knowledge[i]
                    B == knowledge[j]
                IN /\ (get_inference(A, B) = <<>>) <=> ~(B.cells \subseteq A.cells)
                   /\ B.cells \subseteq A.cells =>
                         get_inference(A, B) = <<Difference(A, B)>>
          /\ \A k \in DOMAIN new_inferences' :
                /\ new_inferences'[k].count >= 0
                /\ \E i, j \in DOMAIN knowledge :
                      /\ knowledge[j].cells \subseteq knowledge[i].cells
                      /\ new_inferences'[k] = Difference(knowledge[i], knowledge[j])]_vars

\* a scan has derived a sentence with a positive count from a pair of
\* sentences, with another pair of sentences in knowledge that gives None
C17_Witness ==
    /\ pc = "append"
    /\ \E k \in DOMAIN new_inferences :
        /\ new_inferences[k].count > 0
        /\ Cardinality(new_inferences[k].cells) > new_inferences[k].count
    /\ \E i, j \in DOMAIN knowledge :
        ~(knowledge[j].cells \subseteq knowledge[i].cells)

\* C18: every step of make_safe_move and of make_random_move, the retries of
\* the rejection loop included, leaves moves_made, safes, mines and knowledge
\* as they were, whatever is returned.
C18_MovesReadOnly ==
    [][(pc = "random" \/ op' \in {"make_safe_move", "make_random_move"}) =>
          UNCHANGED <<moves_made, safes, mines, knowledge>>]_vars

\* make_safe_move has returned a cell while sentences, known mines and other
\* unprobed safes were held
C18_Witness ==
    /\ pc = "idle"
    /\ op = "make_safe_move"
    /\ ret # None
    /\ knowledge # <<>>
    /\ mines # {}
    /\ ret \in safes \ moves_made

\* C19: in a truthful run every sentence of knowledge is true of the board in
\* every state, those after each single mark_safe, mark_mine and append
\* included: the number of its cells that hold a mine is its count.
C19_SentencesTrue ==
    \A i \in DOMAIN knowledge :
        Cardinality(knowledge[i].cells \cap board) = knowledge[i].count

\* in the middle of the marking loop: a mine is known, one more is still to
\* be marked and a sentence of several cells still holds it
C19_Witness ==
    /\ pc = "mark"
    /\ new_safes = {}
    /\ mines # {}
    /\ Cardinality(new_mines) = 1
    /\ \E i \in DOMAIN knowledge :
        /\ new_mines \subseteq knowledge[i].cells
        /\ Cardinality(knowledge[i].cells) >= 2
        /\ knowledge[i].count >= 1

\* C20: in a truthful run moves_made and mines are disjoint in every state;
\* whenever the test |moves_made| + |mines| = height x width fails a cell of
\* the grid is in neither set; and in every state of the rejection loop of
\* make_random_move some draw is not rejected, and a retry can draw it, so
\* that the loop ends as soon as such a cell is drawn and is never entered
\* or left spinning on a grid whose every cell is rejected.
C20_RandomLoopCanExit ==
    /\ moves_made \cap mines = {}
    /\ Cardinality(moves_made) + Cardinality(mines) # Height * Width =>
          Cells \ (moves_made \cup mines) # {}
    /\ pc = "random" => \E c \in RandomCells : ~Rejected(c)
    /\ (pc = "random" /\ Rejected(random_cell)) =>
          ENABLED (RandomRetry /\ ~Rejected(random_cell'))
    /\ (pc = "random" /\ ~Rejected(random_cell)) => ENABLED RandomReturn

\* the loop has drawn a rejected cell while a single cell of the grid is left
\* to draw, next to known mines
C20_Witness ==
    /\ pc = "random"
    /\ Rejected(random_cell)
    /\ mines # {}
    /\ Cardinality(Cells \ (moves_made \cup mines)) = 1
====
